---- MODULE Spec2Model ----
(***************************************************************************)
(* Model of tau-builder: the segment extractor (elf_to_raw), the image     *)
(* composer (compose_tau_image), the SPL header builder (calc_spl_header)  *)
(* and the storage writer (format, update).                                *)
(*                                                                         *)
(* Byte buffers (Vec<u8>, [u8], the block device) are kept run-length      *)
(* encoded: a sequence of runs <<byte, end>>, end the offset just past the *)
(* run, the ends increasing and adjacent runs holding different bytes.     *)
(* The encoding is exact and canonical, so two buffers are equal iff their *)
(* encodings are equal.                                                    *)
(***************************************************************************)
EXTENDS Integers, Sequences, FiniteSets, TLC

----------------------------------------------------------------------------
(* Byte strings *)

Rep(b, n) == IF n <= 0 THEN <<>> ELSE << <<b, n>> >>

Zeros(n) == Rep(0, n)

BLen(s) == IF s = <<>> THEN 0 ELSE s[Len(s)][2]

RunStart(s, i) == IF i = 1 THEN 0 ELSE s[i - 1][2]

(* the run holding offset p *)
RunAt(s, p) == CHOOSE i \in 1..Len(s) : RunStart(s, i) <= p /\ p < s[i][2]

BAt(s, p) == s[RunAt(s, p)][1]

BTake(s, n) ==
    IF n <= 0 THEN <<>>
    ELSE IF n >= BLen(s) THEN s
    ELSE LET k == RunAt(s, n - 1)
         IN  [i \in 1..k |-> IF i = k THEN <<s[i][1], n>> ELSE s[i]]

BDrop(s, n) ==
    IF n <= 0 THEN s
    ELSE IF n >= BLen(s) THEN <<>>
    ELSE LET k == RunAt(s, n)
         IN  [i \in 1..(Len(s) - k + 1) |-> <<s[i + k - 1][1], s[i + k - 1][2] - n>>]

BCat(s, t) ==
    IF s = <<>> THEN t
    ELSE IF t = <<>> THEN s
    ELSE LET n  == BLen(s)
             sh == [i \in 1..Len(t) |-> <<t[i][1], t[i][2] + n>>]
         IN  IF s[Len(s)][1] = t[1][1]
             THEN SubSeq(s, 1, Len(s) - 1) \o sh
             ELSE s \o sh

BSlice(s, from, to) == BTake(BDrop(s, from), to - from)

(* the bytes of the sequence q *)
FromSeq(q) ==
    LET last == { i \in 1..Len(q) : i = Len(q) \/ q[i] # q[i + 1] }
        nth(k) == CHOOSE i \in last : Cardinality({ j \in last : j <= i }) = k
    IN  [k \in 1..Cardinality(last) |-> <<q[nth(k)], nth(k)>>]

(* dst[off .. off + len(src)) = src, for off + len(src) <= len(dst).  (Binding  *)
(* a value to a bound variable makes TLC compute it once, where it stands.)   *)
CopyFromSlice(dst, off, src) ==
    CHOOSE r \in { BCat(BCat(BTake(d, off), b), BDrop(d, off + BLen(b))) :
                     d \in {dst}, b \in {src} } : TRUE

----------------------------------------------------------------------------
(* Machine words.  TLC's integers are 32-bit signed, so a u32 is kept as   *)
(* two and a u64 as four 16-bit limbs, least significant first.            *)

Limb == 256 * 256

W32(n) == << n % Limb, n \div Limb >>

W64(n) == << n % Limb, n \div Limb, 0, 0 >>

U32Max == << 65535, 65535 >>

U64Max == << 65535, 65535, 65535, 65535 >>

(* a < b, limbwise from the most significant limb *)
RECURSIVE WLess(_, _)
WLess(a, b) ==
    IF a = <<>> THEN FALSE
    ELSE IF a[Len(a)] # b[Len(b)] THEN a[Len(a)] < b[Len(b)]
    ELSE WLess(SubSeq(a, 1, Len(a) - 1), SubSeq(b, 1, Len(b) - 1))

WMin(a, b) == IF WLess(b, a) THEN b ELSE a

WMax(a, b) == IF WLess(a, b) THEN b ELSE a

(* limbs of a + b + c and the carry out of the top limb *)
RECURSIVE WAddC(_, _, _)
WAddC(a, b, c) ==
    IF a = <<>> THEN [w |-> <<>>, carry |-> c]
    ELSE LET t == a[1] + b[1] + c
             r == WAddC(Tail(a), Tail(b), t \div Limb)
         IN  [w |-> <<t % Limb>> \o r.w, carry |-> r.carry]

(* limbs of a - b - c modulo 2^(16 * Len(a)) *)
RECURSIVE WSubB(_, _, _)
WSubB(a, b, c) ==
    IF a = <<>> THEN <<>>
    ELSE LET t == a[1] - b[1] - c
         IN  IF t < 0 THEN <<t + Limb>> \o WSubB(Tail(a), Tail(b), 1)
             ELSE <<t>> \o WSubB(Tail(a), Tail(b), 0)

WSub(a, b) == WSubB(a, b, 0)

wrapping_add(a, b) == WAddC(a, b, 0).w

overflows(a, b) == WAddC(a, b, 0).carry # 0

saturating_add(a, b) == IF overflows(a, b) THEN U64Max ELSE wrapping_add(a, b)

(* a word that fits TLC's integers, as an integer *)
Fits(a) == (a[2] < 32768) /\ (\A i \in 3..Len(a) : a[i] = 0)

ToInt(a) == a[1] + Limb * a[2]

(* a > n for a buffer length n *)
WGreater(a, n) == IF Fits(a) THEN ToInt(a) > n ELSE TRUE

Pow2(i) == CASE i = 0 -> 1 [] i = 1 -> 2 [] i = 2 -> 4 [] i = 3 -> 8
             [] i = 4 -> 16 [] i = 5 -> 32 [] i = 6 -> 64 [] i = 7 -> 128
             [] i = 8 -> 256 [] i = 9 -> 512 [] i = 10 -> 1024
             [] i = 11 -> 2048 [] i = 12 -> 4096 [] i = 13 -> 8192
             [] i = 14 -> 16384 [] i = 15 -> 32768 [] i = 16 -> 65536

(* exclusive or, by 4-bit digits *)
RECURSIVE XorBits(_, _)
XorBits(a, b) ==
    IF a = 0 THEN b
    ELSE IF b = 0 THEN a
    ELSE (((a % 2) + (b % 2)) % 2) + 2 * XorBits(a \div 2, b \div 2)

Xor4 == [a \in 0..15 |-> [b \in 0..15 |-> XorBits(a, b)]]

Xor16(a, b) ==
    Xor4[a % 16][b % 16]
      + 16 * Xor4[(a \div 16) % 16][(b \div 16) % 16]
      + 256 * Xor4[(a \div 256) % 16][(b \div 256) % 16]
      + 4096 * Xor4[a \div 4096][b \div 4096]

(* Word operations that take computed words are functions: TLC applies a   *)
(* function to the values of its arguments.                                *)
Words == (0..65535) \X (0..65535)

Xor[a \in Words, b \in Words] == << Xor16(a[1], b[1]), Xor16(a[2], b[2]) >>

(* w >> k, k <= 16 *)
ShrK(w, k) ==
    << (w[1] \div Pow2(k)) + (w[2] % Pow2(k)) * Pow2(16 - k), w[2] \div Pow2(k) >>

(* the bytes most significant first: what to_be_bytes would give *)
RECURSIVE to_be_bytes(_)
to_be_bytes(x) ==
    IF x = <<>> THEN <<>>
    ELSE BCat(to_be_bytes(Tail(x)), FromSeq(<< x[1] \div 256, x[1] % 256 >>))

RECURSIVE to_le_bytes(_)
to_le_bytes(x) ==
    IF x = <<>> THEN <<>>
    ELSE BCat(FromSeq(<< x[1] % 256, x[1] \div 256 >>), to_le_bytes(Tail(x)))

----------------------------------------------------------------------------
(* CRC-32/ISO-HDLC: reflected polynomial 0xEDB88320, init and xorout       *)
(* 0xFFFFFFFF, computed by table as the crc crate does.  The register      *)
(* holds a polynomial over GF(2), bit 31 the coefficient of x^0; an input  *)
(* bit of 0 multiplies it by x.                                            *)

CrcPoly == << 33568, 60856 >>

CrcInit == U32Max

CrcOne == << 0, 32768 >>

CrcShift(reg) ==
    IF reg[1] % 2 = 1 THEN Xor[ShrK(reg, 1), CrcPoly] ELSE ShrK(reg, 1)

RECURSIVE ShiftN(_, _)
ShiftN(w, k) == IF k = 0 THEN w ELSE ShiftN(CrcShift(w), k - 1)

(* CrcTable[k][n]: what the low k bits n of the register become when k zero  *)
(* bits are shifted in; CrcTable[8] is the byte table                        *)
CrcTable == [k \in 1..8 |-> [n \in 0..(Pow2(k) - 1) |-> ShiftN(<< n, 0 >>, k)]]

(* the register times x^k *)
ShiftK[reg \in Words, k \in 0..8] ==
    IF k = 0 THEN reg ELSE Xor[ShrK(reg, k), CrcTable[k][reg[1] % Pow2(k)]]

CrcByte[reg \in Words, b \in 0..255] == ShiftK[Xor[reg, << b, 0 >>], 8]

(* byte q of a word, q = 0 the least significant *)
WByte(a, q) ==
    CASE q = 0 -> a[1] % 256 [] q = 1 -> a[1] \div 256
      [] q = 2 -> a[2] % 256 [] q = 3 -> a[2] \div 256

(* b times the polynomial of degree < 8 that the byte c holds *)
MulByte[c \in 0..255, b \in Words] ==
    LET t(k) == IF (c \div Pow2(7 - k)) % 2 = 1 THEN ShiftK[b, k] ELSE << 0, 0 >>
    IN  Xor[Xor[Xor[t(0), t(1)], Xor[t(2), t(3)]],
            Xor[Xor[t(4), t(5)], Xor[t(6), t(7)]]]

(* a * b modulo the CRC polynomial, a byte of a at a time *)
MulModP[a \in Words, b \in Words] ==
    Xor[ShiftK[Xor[ShiftK[Xor[ShiftK[MulByte[WByte(a, 0), b], 8],
                              MulByte[WByte(a, 1), b]], 8],
                   MulByte[WByte(a, 2), b]], 8],
        MulByte[WByte(a, 3), b]]

MulOne[a \in Words, b \in Words] ==
    IF a = CrcOne THEN b ELSE IF b = CrcOne THEN a ELSE MulModP[a, b]

(* x^(2^j) modulo the CRC polynomial, j < 32 *)
X2N(j) ==
    CASE j = 0 -> << 0, 16384 >>
      [] j = 1 -> << 0, 8192 >>
      [] j = 2 -> << 0, 2048 >>
      [] j = 3 -> << 0, 128 >>
      [] j = 4 -> << 32768, 0 >>
      [] j = 5 -> << 33568, 60856 >>
      [] j = 6 -> << 45202, 45542 >>
      [] j = 7 -> << 9495, 41066 >>
      [] j = 8 -> << 32174, 60770 >>
      [] j = 9 -> << 17511, 35025 >>
      [] j = 10 -> << 65130, 55227 >>
      [] j = 11 -> << 32529, 60484 >>
      [] j = 12 -> << 41328, 36478 >>
      [] j = 13 -> << 32782, 25639 >>
      [] j = 14 -> << 47840, 19783 >>
      [] j = 15 -> << 21647, 2558 >>
      [] j = 16 -> << 11535, 33669 >>
      [] j = 17 -> << 12058, 12342 >>
      [] j = 18 -> << 40131, 31578 >>
      [] j = 19 -> << 49513, 12798 >>
      [] j = 20 -> << 554, 40940 >>
      [] j = 21 -> << 60868, 27789 >>
      [] j = 22 -> << 34637, 5590 >>
      [] j = 23 -> << 31310, 24542 >>
      [] j = 24 -> << 3639, 47833 >>
      [] j = 25 -> << 24303, 11854 >>
      [] j = 26 -> << 41492, 20139 >>
      [] j = 27 -> << 29376, 43172 >>
      [] j = 28 -> << 38558, 17050 >>
      [] j = 29 -> << 12330, 5261 >>
      [] j = 30 -> << 42704, 50187 >>
      [] j = 31 -> << 11324, 50402 >>

(* the product of x^(2^j) over the bits j in lo..hi of the exponent k *)
XPowBits[k \in Nat, lo \in 0..29, hi \in 0..29] ==
    IF lo = hi
    THEN IF ((k \div Pow2(lo % 16)) \div Pow2(lo - (lo % 16))) % 2 = 1
         THEN X2N(lo) ELSE CrcOne
    ELSE MulOne[XPowBits[k, lo, (lo + hi) \div 2],
                XPowBits[k, (lo + hi) \div 2 + 1, hi]]

(* x^k modulo the CRC polynomial, k < 2^30 *)
XPow(k) == XPowBits[k, 0, 29]

(* the register after n more bytes b; a long run of zero bytes multiplies  *)
(* the register by x^(8n)                                                  *)
CrcRun[reg \in Words, b \in 0..255, n \in Nat] ==
    IF n = 0 THEN reg
    ELSE IF b = 0 /\ n > 4 THEN MulModP[XPow(8 * n), reg]
    ELSE CrcRun[CrcByte[reg, b], b, n - 1]

(* the register after the bytes of s *)
CrcUpdate(reg, s) ==
    LET after[i \in 0..Len(s)] ==
            IF i = 0 THEN reg
            ELSE CrcRun[after[i - 1], s[i][1], s[i][2] - RunStart(s, i)]
    IN  after[Len(s)]

checksum(s) == Xor[CrcUpdate(CrcInit, s), CrcInit]

----------------------------------------------------------------------------
(* Option<T>: None, or Some(x) *)

None == <<>>

Some(v) == <<v>>

unwrap_or(o, d) == IF o = None THEN d ELSE o[1]

----------------------------------------------------------------------------
(* calc_spl_header *)

MaxSplLen == 180048

HeaderSize == 1024

DefaultBackupOffset == << 0, 32 >>

DefaultVersion == << 257, 257 >>

(* header[(i * 4)..((i + 1) * 4)].clone_from_slice(&x.to_le_bytes()) *)
write_at(header, i, w) == CopyFromSlice(header, i * 4, to_le_bytes(w))

(* the limit taken one byte too low *)
SplTooBigInclusive(spl) == BLen(spl) >= MaxSplLen

SplTooBig(spl) == BLen(spl) > MaxSplLen

calc_spl_header(spl, backup_offset, version) ==
    IF SplTooBig(spl) THEN [ok |-> FALSE, err |-> "spl too big"]
    ELSE LET crc == checksum(spl)
             h0 == Zeros(HeaderSize)
             h1 == write_at(h0, 0, W32(576))
             h2 == write_at(h1, 1, unwrap_or(backup_offset, DefaultBackupOffset))
             h3 == write_at(h2, 161, unwrap_or(version, DefaultVersion))
             h4 == write_at(h3, 162, W32(BLen(spl)))
             h5 == write_at(h4, 163, W32(HeaderSize))
             h6 == write_at(h5, 164, crc)
         IN  [ok |-> TRUE, header |-> h6]

----------------------------------------------------------------------------
(* elf_to_raw.  The parsed executable is [ok, segs]: ok is whether           *)
(* object::File::parse succeeds, segs the segments in table order, each      *)
(* [vaddr, memsz, bytes] with bytes the file-backed data (seg.data(); empty  *)
(* when it is unavailable, as unwrap_or_default and unwrap_or(&[]) make it). *)

filesz(seg) == BLen(seg.bytes)

(* the first loop without its test of seg.size() *)
SelectedAny(seg) == TRUE

(* first loop: the segments kept, and the extent of their addresses *)
Selected(seg) == seg.memsz # W64(0)

loads(segs) == SelectSeq(segs, Selected)

RECURSIVE MinAddr(_, _)
MinAddr(ls, acc) ==
    IF ls = <<>> THEN acc ELSE MinAddr(Tail(ls), WMin(acc, ls[1].vaddr))

RECURSIVE MaxAddr(_, _)
MaxAddr(ls, acc) ==
    IF ls = <<>> THEN acc
    ELSE MaxAddr(Tail(ls), WMax(acc, saturating_add(ls[1].vaddr, ls[1].memsz)))

min_addr(segs) == MinAddr(loads(segs), U64Max)

max_addr(segs) == MaxAddr(loads(segs), W64(0))

(* if end > image.len() || bytes.len() < filesz as usize *)
SegmentInvalid(end, image, seg) ==
    WGreater(end, BLen(image)) \/ BLen(seg.bytes) < filesz(seg)

(* if image.len() < end *)
OutputTooSmall(end, image) == WGreater(end, BLen(image))

(* second loop, from the segments left to copy; checked says whether the    *)
(* build traps on arithmetic overflow (debug-assertions / overflow-checks)  *)
RECURSIVE CopyLoads(_, _, _, _)
CopyLoads(ls, base, image, checked) ==
    IF ls = <<>> THEN [res |-> "Ok", image |-> image]
    ELSE IF filesz(ls[1]) = 0 THEN CopyLoads(Tail(ls), base, image, checked)
    ELSE LET seg == ls[1]
             off == WSub(seg.vaddr, base)
             fsz == W64(filesz(seg))
             end == wrapping_add(off, fsz)
         IN  IF overflows(off, fsz) /\ checked
                 THEN [res |-> "Panic", image |-> image]
             ELSE IF SegmentInvalid(end, image, seg)
                 THEN [res |-> "ElfSegment", image |-> image]
             ELSE IF OutputTooSmall(end, image)
                 THEN [res |-> "ElfOutputTooSmall", image |-> image]
             ELSE IF WLess(end, off)
                 THEN [res |-> "Panic", image |-> image]
             ELSE CopyLoads(Tail(ls), base,
                            CopyFromSlice(image, ToInt(off), seg.bytes), checked)

elf_to_raw(data, image, checked) ==
    IF ~data.ok THEN [res |-> "ElfParse", image |-> image]
    ELSE CopyLoads(loads(data.segs), min_addr(data.segs), image, checked)

----------------------------------------------------------------------------
(* compose_tau_image *)

ImageSize == 262144

SUPERVISOR_OFFSET == 20480

SYSTEM_OFFSET == 65536

(* elf_to_raw(&data, &mut image[lo..hi]): the callee sees only the sub-slice *)
ExtractInto(image, lo, hi, data, checked) ==
    LET r == elf_to_raw(data, BSlice(image, lo, hi), checked)
    IN  [res |-> r.res, image |-> CopyFromSlice(image, lo, r.image)]

(* the system copied into image[SUPERVISOR_OFFSET..], the slice of the call  *)
(* before it                                                                 *)
CopyIntoSupervisor(image, lo, bytes) ==
    LET room  == BLen(image) - SUPERVISOR_OFFSET
        taken == BTake(bytes, room)
    IN  [res   |-> IF BLen(bytes) > room THEN "Read" ELSE "Ok",
         image |-> CopyFromSlice(image, SUPERVISOR_OFFSET, taken)]

(* io::copy(&mut file, &mut &mut image[lo..]): Write for &mut [u8] takes     *)
(* what fits, and write_all fails (WriteZero) when that is not everything    *)
CopyInto(image, lo, bytes) ==
    LET room  == BLen(image) - lo
        taken == BTake(bytes, room)
    IN  [res   |-> IF BLen(bytes) > room THEN "Read" ELSE "Ok",
         image |-> CopyFromSlice(image, lo, taken)]

----------------------------------------------------------------------------
(* The storage device and the layout format and update write *)

SplOffset == 2097152

SbiOffset == 4194304

BlockSize == 512

(* the partition array of 128 entries of 128 bytes, in blocks *)
GptArrayBlocks == (128 * 128) \div BlockSize

DevSize == 8388608

BlankDevice == Rep(238, DevSize)

(* What the gpt crate writes, by position only: the protective MBR in LBA 0,  *)
(* the primary header in LBA 1 and the partition array after it, the backup   *)
(* array and header in the last blocks.  Their bytes are stood for by one     *)
(* marker byte per structure.                                                  *)
ProtectiveMbr == Rep(77, BlockSize)

PrimaryGpt == BCat(Rep(69, BlockSize), Rep(80, GptArrayBlocks * BlockSize))

BackupGpt == BCat(Rep(80, GptArrayBlocks * BlockSize), Rep(69, BlockSize))

BackupGptOffset(dev) ==
    ((BLen(dev) \div BlockSize) - (GptArrayBlocks + 1)) * BlockSize

----------------------------------------------------------------------------
(* Inputs: the files the commands read *)

Seg(v, m, b) == [vaddr |-> v, memsz |-> W64(m), bytes |-> b]

Elf(segs) == [ok |-> TRUE, segs |-> segs]

BadElf == [ok |-> FALSE, segs |-> <<>>]

Digits == FromSeq(<< 49, 50, 51, 52, 53, 54, 55, 56, 57 >>)

LoaderFiles ==
    { Elf(<< Seg(W64(4096), 16, Rep(170, 16)) >>),
      Elf(<< Seg(W64(4096), 32, Rep(170, 16)),
             Seg(W64(8192), 3, FromSeq(<< 187, 0, 204 >>)) >>),
      Elf(<< Seg(W64(4096), 24576, Rep(170, 16)) >>),
      Elf(<< Seg(W64(4096), 16, Rep(170, 16)), Seg(W64(24574), 4, Rep(187, 4)) >>),
      Elf(<< Seg(W64(0), 16, Rep(170, 16)), Seg(U64Max, 2, Rep(187, 2)) >>),
      BadElf }

SupervisorFiles ==
    { Elf(<< Seg(W64(32768), 8, Rep(221, 8)), Seg(W64(0), 0, Rep(17, 4)) >>),
      Elf(<< Seg(W64(32768), 45057, Rep(221, 45057)) >>) }

SystemFiles == { Digits, Rep(85, ImageSize - SYSTEM_OFFSET),
                 Rep(85, ImageSize - SYSTEM_OFFSET + 1) }

SplFiles == { Digits, BCat(Digits, Zeros(MaxSplLen - 9)), Zeros(MaxSplLen + 1) }

SbiFiles == { Rep(91, 3), BCat(Rep(91, 3), Zeros(DevSize - SbiOffset)) }

FileChoices(name) ==
    CASE name = "loader" -> LoaderFiles
      [] name = "supervisor" -> SupervisorFiles
      [] name = "system" -> SystemFiles
      [] name = "spl" -> SplFiles
      [] name = "open_sbi" -> SbiFiles

----------------------------------------------------------------------------
(* The commands, as the steps their code takes in order *)

ComposeSteps ==
    << <<"alloc">>,
       <<"elf_to_raw", "loader", 0, SUPERVISOR_OFFSET>>,
       <<"elf_to_raw", "supervisor", SUPERVISOR_OFFSET, SYSTEM_OFFSET>>,
       <<"copy_system", "system", SYSTEM_OFFSET>> >>

(* format without its second seek: the firmware written where the SPL ends *)
FormatStepsNoSeek ==
    << <<"escalate">>,
       <<"open">>,
       <<"add_partition", 1>>,
       <<"add_partition", 2>>,
       <<"gpt_write">>,
       <<"overwrite_lba0">>,
       <<"read", "spl">>,
       <<"calc_spl_header">>,
       <<"read", "open_sbi">>,
       <<"seek", SplOffset>>,
       <<"write_all", "spl_header">>,
       <<"write_all", "spl">>,
       <<"write_all", "open_sbi">>,
       <<"sync_all">> >>

FormatSteps ==
    << <<"escalate">>,
       <<"open">>,
       <<"add_partition", 1>>,
       <<"add_partition", 2>>,
       <<"gpt_write">>,
       <<"overwrite_lba0">>,
       <<"read", "spl">>,
       <<"calc_spl_header">>,
       <<"read", "open_sbi">>,
       <<"seek", SplOffset>>,
       <<"write_all", "spl_header">>,
       <<"write_all", "spl">>,
       <<"seek", SbiOffset>>,
       <<"write_all", "open_sbi">>,
       <<"sync_all">> >>

(* update opening the device before it composes the image *)
UpdateStepsOpenFirst ==
    << <<"escalate">>, <<"open">> >> \o ComposeSteps \o
    << <<"seek", SplOffset>>,
       <<"write_all", "image">>,
       <<"sync_all">> >>

UpdateSteps ==
    << <<"escalate">> >> \o ComposeSteps \o
    << <<"open">>,
       <<"seek", SplOffset>>,
       <<"write_all", "image">>,
       <<"sync_all">> >>

Steps(c) ==
    CASE c = "format" -> FormatSteps
      [] c = "update" -> UpdateSteps
      [] c = "compose" -> ComposeSteps
      [] OTHER -> <<>>

Commands == {"format", "update", "compose"}

MaxRuns == 2

----------------------------------------------------------------------------
VARIABLES
    cmd,        \* the command running or last run
    pc,         \* the position in Steps(cmd)
    ret,        \* "idle", "running", "Ok", "Panic" or the error returned
    runs,       \* invocations so far
    checked,    \* whether the build traps on arithmetic overflow
    device,     \* the bytes of the target device
    pos,        \* the open file's position
    log,        \* the privilege and device operations of this run, in order
    loc,        \* the command's local buffers
    devAtStart, \* the device as the run found it
    prev,       \* the previous run: its command, result and locals
    arg,        \* the input of a function applied on its own
    out         \* and its result

vars == << cmd, pc, ret, runs, checked, device, pos, log, loc, devAtStart,
           prev, arg, out >>

NoLocals ==
    [ image |-> <<>>, loader |-> <<>>, supervisor |-> <<>>, system |-> <<>>,
      spl |-> <<>>, spl_header |-> <<>>, open_sbi |-> <<>> ]

Idle ==
    /\ cmd = "none"
    /\ pc = 0
    /\ ret = "idle"
    /\ runs = 0
    /\ device = BlankDevice
    /\ pos = 0
    /\ log = <<>>
    /\ loc = NoLocals
    /\ devAtStart = BlankDevice
    /\ prev = [cmd |-> "none", ret |-> "idle", loc |-> NoLocals]

Init ==
    /\ Idle
    /\ checked \in BOOLEAN
    /\ arg = <<>>
    /\ out = <<>>

Running == ret = "running"

Step == Steps(cmd)[pc]

At(kind) == Running /\ Step[1] = kind

(* the step returned normally: on to the next, or the command returns Ok *)
Advance ==
    /\ pc' = pc + 1
    /\ ret' = IF pc = Len(Steps(cmd)) THEN "Ok" ELSE ret

(* the step's error is returned by ? *)
Fail(e) == pc' = pc /\ ret' = e

Start(c) ==
    /\ ~Running
    /\ runs < MaxRuns
    /\ cmd' = c
    /\ pc' = 1
    /\ ret' = "running"
    /\ runs' = runs + 1
    /\ pos' = 0
    /\ log' = <<>>
    /\ loc' = NoLocals
    /\ devAtStart' = device
    /\ prev' = [cmd |-> cmd, ret |-> ret, loc |-> loc]
    /\ UNCHANGED << checked, device, arg, out >>

(* sudo::escalate_if_needed() *)
Escalate ==
    /\ At("escalate")
    /\ \E ok \in BOOLEAN :
          /\ log' = Append(log, <<"escalate", ok>>)
          /\ IF ok THEN Advance ELSE Fail("sudo")
    /\ UNCHANGED << cmd, runs, checked, device, pos, loc, devAtStart, prev,
                    arg, out >>

(* GptConfig::create(path), OpenOptions::open(path) *)
Open ==
    /\ At("open")
    /\ \E ok \in BOOLEAN :
          /\ log' = Append(log, <<"open", ok>>)
          /\ IF ok THEN Advance ELSE Fail("io")
    /\ pos' = 0
    /\ UNCHANGED << cmd, runs, checked, device, loc, devAtStart, prev, arg, out >>

(* disk.add_partition_at(..): the table in memory only *)
AddPartition ==
    /\ At("add_partition")
    /\ \E ok \in BOOLEAN : IF ok THEN Advance ELSE Fail("gpt")
    /\ UNCHANGED << cmd, runs, checked, device, pos, log, loc, devAtStart,
                    prev, arg, out >>

(* disk.write(): the primary, then the backup table; an error in between     *)
(* leaves the primary written                                                *)
GptWrite ==
    /\ At("gpt_write")
    /\ LET p == CopyFromSlice(device, BlockSize, PrimaryGpt)
           b == CopyFromSlice(p, BackupGptOffset(device), BackupGpt)
           lp == Append(log, <<"write", BlockSize, BLen(PrimaryGpt)>>)
           lb == Append(lp, <<"write", BackupGptOffset(device), BLen(BackupGpt)>>)
       IN  \/ device' = b /\ log' = lb /\ Advance
           \/ device' = p /\ log' = lp /\ Fail("gpt")
           \/ device' = device /\ log' = log /\ Fail("gpt")
    /\ UNCHANGED << cmd, runs, checked, pos, loc, devAtStart, prev, arg, out >>

(* mbr.overwrite_lba0(&mut file).unwrap() *)
OverwriteLba0 ==
    /\ At("overwrite_lba0")
    /\ \/ /\ device' = CopyFromSlice(device, 0, ProtectiveMbr)
          /\ log' = Append(log, <<"write", 0, BLen(ProtectiveMbr)>>)
          /\ Advance
       \/ /\ UNCHANGED << device, log >>
          /\ Fail("Panic")
    /\ UNCHANGED << cmd, runs, checked, pos, loc, devAtStart, prev, arg, out >>

(* fs::read(path)? *)
Read ==
    /\ At("read")
    /\ \/ \E f \in FileChoices(Step[2]) :
             loc' = [loc EXCEPT ![Step[2]] = f] /\ Advance
       \/ loc' = loc /\ Fail("io")
    /\ UNCHANGED << cmd, runs, checked, device, pos, log, devAtStart, prev,
                    arg, out >>

(* let spl_header = calc_spl_header(&spl, None, None)? *)
CalcSplHeader ==
    /\ At("calc_spl_header")
    /\ LET r == calc_spl_header(loc.spl, None, None)
       IN  IF r.ok THEN loc' = [loc EXCEPT !.spl_header = r.header] /\ Advance
           ELSE loc' = loc /\ Fail(r.err)
    /\ UNCHANGED << cmd, runs, checked, device, pos, log, devAtStart, prev,
                    arg, out >>

(* file.seek(SeekFrom::Start(off))? *)
Seek ==
    /\ At("seek")
    /\ \/ pos' = Step[2] /\ Advance
       \/ pos' = pos /\ Fail("io")
    /\ UNCHANGED << cmd, runs, checked, device, log, loc, devAtStart, prev,
                    arg, out >>

(* how much of n bytes a failing write_all may leave written, with room      *)
(* bytes left before the end of the device                                   *)
PartialLens(n, room) == IF n > room THEN {room} ELSE {0, n \div 2}

(* file.write_all(&buf)?: at the file position, which it advances *)
WriteAll ==
    /\ At("write_all")
    /\ LET buf  == loc[Step[2]]
           n    == BLen(buf)
           room == IF pos > BLen(device) THEN 0 ELSE BLen(device) - pos
       IN  \/ /\ n <= room
              /\ device' = CopyFromSlice(device, pos, buf)
              /\ pos' = pos + n
              /\ log' = Append(log, <<"write", pos, n>>)
              /\ Advance
           \/ \E k \in PartialLens(n, room) :
                 /\ device' = CopyFromSlice(device, pos, BTake(buf, k))
                 /\ pos' = pos + k
                 /\ log' = Append(log, <<"write", pos, k>>)
                 /\ Fail("io")
    /\ UNCHANGED << cmd, runs, checked, loc, devAtStart, prev, arg, out >>

(* file.sync_all()? *)
SyncAll ==
    /\ At("sync_all")
    /\ \E ok \in BOOLEAN :
          /\ log' = Append(log, <<"sync", ok>>)
          /\ IF ok THEN Advance ELSE Fail("io")
    /\ UNCHANGED << cmd, runs, checked, device, pos, loc, devAtStart, prev,
                    arg, out >>

(* let mut image = vec![0; 0x40000] *)
Alloc ==
    /\ At("alloc")
    /\ loc' = [loc EXCEPT !.image = Zeros(ImageSize)]
    /\ Advance
    /\ UNCHANGED << cmd, runs, checked, device, pos, log, devAtStart, prev,
                    arg, out >>

(* let data = fs::read(path)?; elf_to_raw(&data, &mut image[lo..hi])? *)
ElfToRaw ==
    /\ At("elf_to_raw")
    /\ \/ \E f \in FileChoices(Step[2]) :
             LET r == ExtractInto(loc.image, Step[3], Step[4], f, checked)
             IN  /\ loc' = [loc EXCEPT ![Step[2]] = f, !.image = r.image]
                 /\ IF r.res = "Ok" THEN Advance ELSE Fail(r.res)
       \/ loc' = loc /\ Fail("Read")
    /\ UNCHANGED << cmd, runs, checked, device, pos, log, devAtStart, prev,
                    arg, out >>

(* let mut file = fs::File::open(path)?; io::copy(&mut file, &mut &mut image[lo..])? *)
CopySystem ==
    /\ At("copy_system")
    /\ \/ \E f \in FileChoices(Step[2]) :
             LET r == CopyInto(loc.image, Step[3], f)
             IN  /\ loc' = [loc EXCEPT ![Step[2]] = f, !.image = r.image]
                 /\ IF r.res = "Ok" THEN Advance ELSE Fail(r.res)
       \/ loc' = loc /\ Fail("Read")
    /\ UNCHANGED << cmd, runs, checked, device, pos, log, devAtStart, prev,
                    arg, out >>

Next ==
    \/ \E c \in Commands : Start(c)
    \/ Escalate
    \/ Open
    \/ AddPartition
    \/ GptWrite
    \/ OverwriteLba0
    \/ Read
    \/ CalcSplHeader
    \/ Seek
    \/ WriteAll
    \/ SyncAll
    \/ Alloc
    \/ ElfToRaw
    \/ CopySystem

Spec == Init /\ [][Next]_vars

----------------------------------------------------------------------------
(* elf_to_raw applied on its own, to every executable of up to MaxSegs     *)
(* segments and a small destination                                        *)

MaxSegs == 2

MaxImageLen == 8

SegAddrs == { W64(0), W64(4096), W64(4098), U64Max }

SegContents ==
    { [memsz |-> 3, bytes |-> <<>>],
      [memsz |-> 0, bytes |-> Rep(170, 2)],
      [memsz |-> 2, bytes |-> Rep(170, 2)],
      [memsz |-> 5, bytes |-> Rep(170, 2)],
      [memsz |-> 3, bytes |-> FromSeq(<< 187, 204, 221 >>)] }

SegChoices == { Seg(v, c.memsz, c.bytes) : v \in SegAddrs, c \in SegContents }

SegTables == UNION { [1..n -> SegChoices] : n \in 0..MaxSegs }

ElfInputs == { BadElf } \cup { Elf(t) : t \in SegTables }

ElfImages ==
    { Zeros(MaxImageLen \div 2), Zeros(MaxImageLen), Rep(255, MaxImageLen) }

ElfArgs == [ data : ElfInputs, image : ElfImages ]

InitElf ==
    /\ Idle
    /\ checked \in BOOLEAN
    /\ arg \in ElfArgs
    /\ out = <<>>

CallElfToRaw ==
    /\ out = <<>>
    /\ out' = << elf_to_raw(arg.data, arg.image, checked) >>
    /\ UNCHANGED << cmd, pc, ret, runs, checked, device, pos, log, loc,
                    devAtStart, prev, arg >>

NextElf == CallElfToRaw

SpecElf == InitElf /\ [][NextElf]_vars

----------------------------------------------------------------------------
(* calc_spl_header applied on its own *)

HeaderSpls ==
    { <<>>, Zeros(1), Rep(255, 1), Digits,
      BCat(Rep(170, 3), BCat(Zeros(100), Rep(7, 2))),
      Zeros(MaxSplLen), BCat(Digits, Zeros(MaxSplLen - 9)),
      Zeros(MaxSplLen + 1), BCat(Digits, Zeros(MaxSplLen)) }

HeaderWords == { None, Some(W32(0)), Some(U32Max), Some(<< 22136, 4660 >>) }

HeaderArgs ==
    [ spl : HeaderSpls, backup_offset : HeaderWords, version : HeaderWords ]

InitHeader ==
    /\ Idle
    /\ checked \in BOOLEAN
    /\ arg \in HeaderArgs
    /\ out = <<>>

CallCalcSplHeader ==
    /\ out = <<>>
    /\ out' = << calc_spl_header(arg.spl, arg.backup_offset, arg.version) >>
    /\ UNCHANGED << cmd, pc, ret, runs, checked, device, pos, log, loc,
                    devAtStart, prev, arg >>

NextHeader == CallCalcSplHeader

SpecHeader == InitHeader /\ [][NextHeader]_vars

----------------------------------------------------------------------------
(* What the statements below speak of, said without the code's own loops *)

(* a segment with memory size > 0 *)
Loadable(seg) == seg.memsz # W64(0)

LoadableIn(segs) == { k \in DOMAIN segs : Loadable(segs[k]) }

FileBackedIn(segs) == { k \in LoadableIn(segs) : BLen(segs[k].bytes) > 0 }

(* the lowest vaddr among the segments with memory size > 0 *)
LowestAddr(segs) ==
    LET vs == { segs[k].vaddr : k \in LoadableIn(segs) }
    IN  CHOOSE v \in vs : \A u \in vs : ~WLess(u, v)

(* vaddr - min_addr of segment k *)
OffsetOf(segs, k) == WSub(segs[k].vaddr, LowestAddr(segs))

(* off + size > len, in unbounded arithmetic *)
PastEnd(off, size, len) ==
    overflows(off, size) \/ WGreater(wrapping_add(off, size), len)

(* the file-backed range of segment k ends past a buffer of len bytes *)
FilePastEnd(segs, k, len) ==
    PastEnd(OffsetOf(segs, k), W64(BLen(segs[k].bytes)), len)

(* the memory footprint of segment k ends past a buffer of len bytes *)
MemPastEnd(segs, k, len) == PastEnd(OffsetOf(segs, k), segs[k].memsz, len)

(* the file-backed segments whose range holds buffer index i *)
Covering(segs, i) ==
    { k \in FileBackedIn(segs) :
        LET o == ToInt(OffsetOf(segs, k))
        IN  o <= i /\ i < o + BLen(segs[k].bytes) }

(* the byte of segment k that belongs at buffer index i *)
SourceByte(segs, k, i) == BAt(segs[k].bytes, i - ToInt(OffsetOf(segs, k)))

Last(S) == CHOOSE k \in S : \A j \in S : j <= k

(* every selected segment fits a buffer of len bytes, file range and footprint *)
AllFit(segs, len) ==
    \A k \in LoadableIn(segs) : ~FilePastEnd(segs, k, len) /\ ~MemPastEnd(segs, k, len)

ElfReturned == out # <<>> /\ arg.data.ok

(* the ranges [from, to) of a buffer that start at lo and that the file-backed *)
(* segments of a parsed executable name                                        *)
FileRanges(file, lo) ==
    IF DOMAIN file = {} THEN {}
    ELSE IF ~file.ok THEN {}
    ELSE { << lo + ToInt(OffsetOf(file.segs, k)),
              lo + ToInt(OffsetOf(file.segs, k)) + BLen(file.segs[k].bytes) >> :
             k \in { j \in FileBackedIn(file.segs) :
                       ~FilePastEnd(file.segs, j, ImageSize) } }

(* every nonzero byte of the buffer lies in one of the ranges *)
ZeroOutside(image, ranges) ==
    \A i \in 1..Len(image) :
        image[i][1] # 0 =>
            \A p \in {RunStart(image, i)} \cup
                     { r[2] : r \in { q \in ranges : RunStart(image, i) < q[2]
                                                      /\ q[2] < image[i][2] } } :
                \E r \in ranges : r[1] <= p /\ p < r[2]

LoaderRanges == FileRanges(loc.loader, 0)

SupervisorRanges == FileRanges(loc.supervisor, SUPERVISOR_OFFSET)

SystemRanges == { << SYSTEM_OFFSET, SYSTEM_OFFSET + BLen(loc.system) >> }

(* compose_tau_image has returned its image to the command running *)
ComposeReturned ==
    \/ cmd = "compose" /\ ret = "Ok"
    \/ cmd = "update" /\ pc > 1 + Len(ComposeSteps)

(* 32-bit word i of a buffer, its four bytes read little-endian *)
WordAt(h, i) ==
    << BAt(h, 4 * i) + 256 * BAt(h, 4 * i + 1),
       BAt(h, 4 * i + 2) + 256 * BAt(h, 4 * i + 3) >>

HeaderWordIndices == { 0, 1, 161, 162, 163, 164 }

(* CRC-32/ISO-HDLC of the payloads tried, as zlib's crc32 gives them *)
KnownCrc32(spl) ==
    CASE spl = <<>> -> << 0, 0 >>
      [] spl = Zeros(1) -> << 61325, 53762 >>
      [] spl = Rep(255, 1) -> << 0, 65280 >>
      [] spl = Digits -> << 14630, 52212 >>
      [] spl = BCat(Rep(170, 3), BCat(Zeros(100), Rep(7, 2))) -> << 45384, 18893 >>
      [] spl = Zeros(MaxSplLen) -> << 52774, 32055 >>
      [] spl = BCat(Digits, Zeros(MaxSplLen - 9)) -> << 56573, 1131 >>

LogKinds == { log[i][1] : i \in DOMAIN log }

DeviceOps == { "open", "write", "sync" }

----------------------------------------------------------------------------
(* C1 (as stated): for an executable whose selected segments all fit the    *)
(* buffer and a buffer all zero on entry, elf_to_raw succeeds, every index  *)
(* in some selected segment's file-backed range holds that segment's byte,  *)
(* and every other index is zero.  Two segments whose file-backed ranges    *)
(* overlap with different bytes refute it.                                  *)
C1_AsStated ==
    (ElfReturned /\ arg.image = Zeros(BLen(arg.image))
       /\ AllFit(arg.data.segs, BLen(arg.image)))
    => /\ out[1].res = "Ok"
       /\ BLen(out[1].image) = BLen(arg.image)
       /\ \A i \in 0..(BLen(arg.image) - 1) :
             /\ \A k \in Covering(arg.data.segs, i) :
                   BAt(out[1].image, i) = SourceByte(arg.data.segs, k, i)
             /\ Covering(arg.data.segs, i) = {} => BAt(out[1].image, i) = 0

(* C1 (amended): under the same conditions elf_to_raw succeeds, every index *)
(* in some selected segment's file-backed range holds the byte of the last  *)
(* such segment in table order, and every other index is zero, the          *)
(* memsz - filesz tail of each segment included.                            *)
C1_LastSegmentWins ==
    (ElfReturned /\ arg.image = Zeros(BLen(arg.image))
       /\ AllFit(arg.data.segs, BLen(arg.image)))
    => /\ out[1].res = "Ok"
       /\ BLen(out[1].image) = BLen(arg.image)
       /\ \A i \in 0..(BLen(arg.image) - 1) :
             BAt(out[1].image, i) =
                IF Covering(arg.data.segs, i) = {} THEN 0
                ELSE SourceByte(arg.data.segs, Last(Covering(arg.data.segs, i)), i)

(* two fitting segments, one with a zero-filled tail, extracted into zeros *)
C1_Witness ==
    /\ ElfReturned
    /\ arg.image = Zeros(BLen(arg.image))
    /\ AllFit(arg.data.segs, BLen(arg.image))
    /\ Len(arg.data.segs) = 2
    /\ FileBackedIn(arg.data.segs) = {1, 2}
    /\ \E k \in {1, 2} : ToInt(arg.data.segs[k].memsz) > BLen(arg.data.segs[k].bytes)
    /\ out[1].res = "Ok"
    /\ out[1].image # arg.image

(* C2: whenever a file-backed segment's range ends past the buffer,         *)
(* elf_to_raw fails with ElfOutputTooSmall and the buffer keeps its length. *)
C2_CapacityError ==
    (ElfReturned
       /\ \E k \in FileBackedIn(arg.data.segs) :
             FilePastEnd(arg.data.segs, k, BLen(arg.image)))
    => /\ out[1].res = "ElfOutputTooSmall"
       /\ BLen(out[1].image) = BLen(arg.image)

(* C3: the image compose_tau_image returns is 0x40000 bytes long and is     *)
(* zero outside the ranges of the loader's and the supervisor's file-backed *)
(* segments and of the system's bytes.                                      *)
C3_ImageZeroOutsidePayloads ==
    ComposeReturned
    => /\ BLen(loc.image) = ImageSize
       /\ ZeroOutside(loc.image,
                      LoaderRanges \cup SupervisorRanges \cup SystemRanges)

(* an image returned with payload bytes at its start and zeros at its end *)
C3_Witness ==
    /\ cmd = "compose"
    /\ ret = "Ok"
    /\ BAt(loc.image, 0) # 0
    /\ BAt(loc.image, SUPERVISOR_OFFSET) # 0
    /\ BAt(loc.image, SYSTEM_OFFSET) # 0
    /\ BAt(loc.image, ImageSize - 1) = 0

(* C4: in compose_tau_image each region holds nothing but its own payload,  *)
(* and a payload that needs more than its region makes the composition      *)
(* return an error.                                                         *)
C4_RegionsKeptOrError ==
    /\ cmd \in {"compose", "update"} =>
          /\ ZeroOutside(BTake(loc.image, SUPERVISOR_OFFSET), LoaderRanges)
          /\ ZeroOutside(BSlice(loc.image, 0, SYSTEM_OFFSET),
                         LoaderRanges \cup SupervisorRanges)
          /\ ZeroOutside(loc.image,
                         LoaderRanges \cup SupervisorRanges \cup SystemRanges)
    /\ (/\ cmd \in {"compose", "update"}
        /\ \/ /\ DOMAIN loc.loader # {}
              /\ loc.loader.ok
              /\ \E k \in FileBackedIn(loc.loader.segs) :
                     FilePastEnd(loc.loader.segs, k, SUPERVISOR_OFFSET)
           \/ /\ DOMAIN loc.supervisor # {}
              /\ loc.supervisor.ok
              /\ \E k \in FileBackedIn(loc.supervisor.segs) :
                     FilePastEnd(loc.supervisor.segs, k,
                                 SYSTEM_OFFSET - SUPERVISOR_OFFSET)
           \/ BLen(loc.system) > ImageSize - SYSTEM_OFFSET)
       => ret \in {"ElfSegment", "ElfOutputTooSmall", "Read"}

(* C5: for a payload of N <= 180048 bytes and any backup_offset and version *)
(* calc_spl_header returns 1024 bytes whose little-endian words are 0x240   *)
(* at 0x00, backup_offset or 0x200000 at 0x01, version or 0x01010101 at     *)
(* 0xa1, N at 0xa2, 0x400 at 0xa3 and the payload's CRC-32 at 0xa4, every   *)
(* other byte zero.                                                         *)
C5_HeaderLayout ==
    (out # <<>> /\ BLen(arg.spl) <= 180048)
    => /\ out[1].ok
       /\ BLen(out[1].header) = 1024
       /\ WordAt(out[1].header, 0) = W32(576)
       /\ WordAt(out[1].header, 1) =
             (IF arg.backup_offset = None THEN << 0, 32 >> ELSE arg.backup_offset[1])
       /\ WordAt(out[1].header, 161) =
             (IF arg.version = None THEN << 257, 257 >> ELSE arg.version[1])
       /\ WordAt(out[1].header, 162) = W32(BLen(arg.spl))
       /\ WordAt(out[1].header, 163) = W32(1024)
       /\ WordAt(out[1].header, 164) = KnownCrc32(arg.spl)
       /\ \A p \in 0..1023 :
             (p \div 4) \notin HeaderWordIndices => BAt(out[1].header, p) = 0

(* the header of a payload of the greatest length, one word given *)
C5_Witness ==
    /\ out # <<>>
    /\ out[1].ok
    /\ arg.spl = BCat(Digits, Zeros(MaxSplLen - 9))
    /\ arg.backup_offset = Some(<< 22136, 4660 >>)
    /\ arg.version = None

(* C6: calc_spl_header fails with the size-limit error, and gives no        *)
(* header, exactly when the payload is longer than 180048 bytes, and format *)
(* then writes neither header nor payload at 0x200000.                      *)
C6_SizeLimit ==
    cmd = "format" =>
       /\ (pc = 8 /\ ~Running) =>
             /\ ret = "spl too big"
             /\ BLen(loc.spl) > 180048
             /\ loc.spl_header = <<>>
             /\ BSlice(device, 2097152, 2097152 + 1024 + BLen(loc.spl))
                   = BSlice(devAtStart, 2097152, 2097152 + 1024 + BLen(loc.spl))
             /\ \A i \in DOMAIN log :
                   log[i][1] = "write" =>
                      \/ log[i][2] + log[i][3] <= 2097152
                      \/ log[i][2] >= 2097152 + 1024 + BLen(loc.spl)
       /\ pc > 8 =>
             /\ BLen(loc.spl) <= 180048
             /\ BLen(loc.spl_header) = 1024
       /\ ret = "spl too big" => pc = 8

(* format stopped by a payload of 180049 bytes *)
C6_Witness ==
    /\ cmd = "format"
    /\ ret = "spl too big"
    /\ BLen(loc.spl) = 180049

(* C7: after format, a successful update leaves the bytes before 0x200000   *)
(* (the partition table among them), the header format wrote at             *)
(* [0x200000, 0x200400) and the bytes after the image as they were.         *)
C7_UpdateKeepsHeader ==
    (cmd = "update" /\ ret = "Ok" /\ prev.cmd = "format" /\ prev.ret = "Ok")
    => /\ BTake(device, SplOffset) = BTake(devAtStart, SplOffset)
       /\ BSlice(device, SplOffset, SplOffset + 1024) = prev.loc.spl_header
       /\ BDrop(device, SplOffset + ImageSize) = BDrop(devAtStart, SplOffset + ImageSize)

(* C8: when format returns success the device holds the header at           *)
(* [0x200000, 0x200400), the SPL from 0x200400 and the firmware from        *)
(* 0x400000, and the last thing done to the device was a flush.             *)
C8_FormatLayoutFlushed ==
    (cmd = "format" /\ ret = "Ok")
    => /\ BLen(loc.spl_header) = 1024
       /\ BSlice(device, 2097152, 2097152 + 1024) = loc.spl_header
       /\ BSlice(device, 2097152 + 1024, 2097152 + 1024 + BLen(loc.spl)) = loc.spl
       /\ BSlice(device, 4194304, 4194304 + BLen(loc.open_sbi)) = loc.open_sbi
       /\ log[Len(log)] = << "sync", TRUE >>
       /\ \E i, j, k \in DOMAIN log :
             /\ i < j /\ j < k /\ k < Len(log)
             /\ log[i] = << "write", 2097152, 1024 >>
             /\ log[j] = << "write", 2097152 + 1024, BLen(loc.spl) >>
             /\ log[k] = << "write", 4194304, BLen(loc.open_sbi) >>

(* format succeeded with a payload of the greatest length *)
C8_Witness ==
    /\ cmd = "format"
    /\ ret = "Ok"
    /\ BLen(loc.spl) = MaxSplLen

(* C9: format and update attempt the escalation once, before anything is    *)
(* done to the device; a failed escalation leaves the device as it was;     *)
(* update does nothing to the device until compose_tau_image has returned   *)
(* its image, so a failed composition leaves the device as it was.          *)
C9_EscalateFirst ==
    cmd \in {"format", "update"} =>
       /\ log # <<>> => log[1][1] = "escalate"
       /\ \A i \in 2..Len(log) : log[i][1] # "escalate"
       /\ ~Running => log # <<>>
       /\ ret = "sudo" => Len(log) = 1 /\ device = devAtStart
       /\ (cmd = "update" /\ LogKinds \cap DeviceOps # {}) =>
             /\ pc > 1 + Len(ComposeSteps)
             /\ BLen(loc.image) = ImageSize
       /\ (cmd = "update" /\ pc <= 1 + Len(ComposeSteps)) => device = devAtStart

(* an update on a provisioned device whose composition failed *)
C9_Witness ==
    /\ cmd = "update"
    /\ ret = "ElfSegment"
    /\ prev.cmd = "format"
    /\ prev.ret = "Ok"
    /\ device = devAtStart
    /\ log = << << "escalate", TRUE >> >>

(* C10: whenever elf_to_raw returns success, no selected segment's memory   *)
(* footprint [vaddr - min_addr, vaddr - min_addr + memsz) ends past the     *)
(* buffer: the buffer is at least max(vaddr + memsz) - min(vaddr) long.     *)
C10_ExtentValidated ==
    (ElfReturned /\ out[1].res = "Ok")
    => \A k \in LoadableIn(arg.data.segs) :
          ~MemPastEnd(arg.data.segs, k, BLen(arg.image))

====
